---- MODULE Spec2Model ----
(***************************************************************************)
(* A model of app.py, the WooCommerce-driven shot-list planner: the        *)
(* catalog sync (normalisation, Cache -> Theme discovery, assignment),     *)
(* the generation of the roster, and the lock / re-roll / clear handlers   *)
(* of the index route.                                                     *)
(*                                                                         *)
(* Strings are sequences of one-character strings, so that lower(),        *)
(* strip() and the substring test are computed and not assumed.            *)
(***************************************************************************)
EXTENDS Integers, Sequences, FiniteSets, TLC

VARIABLES
    wcReady,    \* wc_ready(): fixed by the environment when the process starts
    remote,     \* the store behind wc_get: categories, products, variations
    catalog,    \* WC_CATALOG
    rows,       \* POSTS
    locks,      \* LOCKS
    msg,        \* the message the last request rendered
    act,        \* the "action" field of the last POST request
    gen,        \* number of build_posts() runs so far (source of fresh uids)
    clock,      \* number of completed syncs (source of synced_at)
    arg,        \* the "post_id" field of the last POST request
    disk,       \* data.json
    pre,        \* rows, locks and catalog as the last request found them
    thr,        \* the requests in flight when requests are served by threads
    hist        \* history: the rows the last build_posts() returned and the
                \* rows clear_unlocked has dropped

vars == <<wcReady, remote, catalog, rows, locks, msg, act, gen, clock, arg, disk,
          pre, thr, hist>>

(***************************************************************************)
(* Bounds of the model.                                                    *)
(***************************************************************************)
\* Number of outcomes of one random.shuffle that are explored.
MaxSeeds == 6
\* Number of build_posts() runs in one behaviour.
MaxGen == 1
\* Number of syncs in one behaviour.
MaxSync == 1
\* Length of the category list of the product whose categories are enumerated.
MaxCatIds == 2
\* Number of options of the attribute, or of variations of the product, whose
\* values are enumerated.
MaxOpts == 3

(***************************************************************************)
(* Strings.                                                                *)
(***************************************************************************)
UpperChars == <<"A","B","C","D","E","F","G","H","I","J","K","L","M",
                "N","O","P","Q","R","S","T","U","V","W","X","Y","Z">>
LowerChars == <<"a","b","c","d","e","f","g","h","i","j","k","l","m",
                "n","o","p","q","r","s","t","u","v","w","x","y","z">>

\* The value None where the code holds a string or None.
NoneStr == <<"<None>">>
\* The value None where the code holds an id or None.
NoneId == -1

LowerChar(c) ==
    IF \E i \in 1..Len(UpperChars) : UpperChars[i] = c
    THEN LowerChars[CHOOSE i \in 1..Len(UpperChars) : UpperChars[i] = c]
    ELSE c

\* str.lower()
Lower(s) == [i \in 1..Len(s) |-> LowerChar(s[i])]

RECURSIVE LStrip(_)
LStrip(s) == IF s # <<>> /\ Head(s) = " " THEN LStrip(Tail(s)) ELSE s

RECURSIVE RStrip(_)
RStrip(s) ==
    IF s # <<>> /\ s[Len(s)] = " " THEN RStrip(SubSeq(s, 1, Len(s) - 1)) ELSE s

\* str.strip()
Strip(s) == RStrip(LStrip(s))

\* sub in s
Contains(sub, s) ==
    \E i \in 1..(Len(s) - Len(sub) + 1) : SubSeq(s, i, i + Len(sub) - 1) = sub

\* Truth value of a string-or-None: None and "" are false.
Truthy(s) == s # NoneStr /\ s # <<>>

\* x or d
OrElse(x, d) == IF Truthy(x) THEN x ELSE d

S_color == <<"c","o","l","o","r">>
S_colour == <<"c","o","l","o","u","r">>
S_caches == <<"c","a","c","h","e","s">>
S_Unassigned == <<"U","n","a","s","s","i","g","n","e","d">>
S_Product == <<"P","r","o","d","u","c","t"," ">>
Digits == <<"0","1","2","3","4","5","6","7","8","9">>

RECURSIVE IntStr(_)
\* str(n) for n >= 0
IntStr(n) ==
    IF n < 10 THEN <<Digits[n + 1]>> ELSE IntStr(n \div 10) \o <<Digits[(n % 10) + 1]>>

(***************************************************************************)
(* Python dicts, as sequences of <<key, value>> in insertion order.        *)
(***************************************************************************)
DictHas(d, k) == \E i \in 1..Len(d) : d[i][1] = k

DictGet(d, k, default) ==
    IF DictHas(d, k) THEN d[CHOOSE i \in 1..Len(d) : d[i][1] = k][2] ELSE default

\* d[k] = v: an existing key keeps its place and takes the new value.
DictPut(d, k, v) ==
    IF DictHas(d, k)
    THEN [i \in 1..Len(d) |-> IF d[i][1] = k THEN <<k, v>> ELSE d[i]]
    ELSE Append(d, <<k, v>>)

RECURSIVE SeqMap(_, _)
SeqMap(F(_), s) == IF s = <<>> THEN <<>> ELSE <<F(Head(s))>> \o SeqMap(F, Tail(s))

RECURSIVE Flatten(_)
Flatten(ss) == IF ss = <<>> THEN <<>> ELSE Head(ss) \o Flatten(Tail(ss))

Range(s) == {s[i] : i \in 1..Len(s)}

(***************************************************************************)
(* Woo helpers.                                                            *)
(***************************************************************************)
\* _find_color_attr_name: the first key that contains "color" or "colour".
FindColorAttrName(d) ==
    LET hit(i) == Contains(S_color, Lower(d[i][1])) \/ Contains(S_colour, Lower(d[i][1]))
    IN  IF \E i \in 1..Len(d) : hit(i)
        THEN d[CHOOSE i \in 1..Len(d) : hit(i) /\ \A j \in 1..(i - 1) : ~hit(j)][1]
        ELSE NoneStr

RECURSIVE CandOf(_, _)
\* the loop of _extract_variation_color: cand[name.lower()] = option or ""
CandOf(attrs, cand) ==
    IF attrs = <<>> THEN cand
    ELSE CandOf(Tail(attrs),
                DictPut(cand, Lower(OrElse(Head(attrs).name, <<>>)),
                        OrElse(Head(attrs).option, <<>>)))

ExtractVariationColor(variation) ==
    LET cand == CandOf(variation.attributes, <<>>)
        key == OrElse(FindColorAttrName(cand), <<>>)
    IN  Strip(OrElse(DictGet(cand, key, <<>>), <<>>))

RECURSIVE DedupColorsExact(_, _, _)
\* a bug: seen holds the colors as written, so the test is case-sensitive
DedupColorsExact(cs, seen, colors) ==
    IF cs = <<>> THEN colors
    ELSE LET c == Head(cs)
         IN  IF c # <<>> /\ c \notin seen
             THEN DedupColorsExact(Tail(cs), seen \cup {c}, Append(colors, c))
             ELSE DedupColorsExact(Tail(cs), seen, colors)

RECURSIVE DedupColors(_, _, _)
\* the loops "if c and c.lower() not in seen: seen.add(c.lower()); colors.append(c)"
DedupColors(cs, seen, colors) ==
    IF cs = <<>> THEN colors
    ELSE LET c == Head(cs)
         IN  IF c # <<>> /\ Lower(c) \notin seen
             THEN DedupColors(Tail(cs), seen \cup {Lower(c)}, Append(colors, c))
             ELSE DedupColors(Tail(cs), seen, colors)

RECURSIVE OptMapOf(_, _)
\* opt_map[name.lower()] = [str(o).strip() for o in opts if str(o).strip()]
OptMapOf(attrs, m) ==
    IF attrs = <<>> THEN m
    ELSE OptMapOf(Tail(attrs),
                  DictPut(m, Lower(OrElse(Head(attrs).name, <<>>)),
                          SelectSeq(SeqMap(Strip, Head(attrs).options),
                                    LAMBDA o : o # <<>>)))

\* _normalize_product, given the variations wc_get returned for the product
NormalizeProduct(p, variations) ==
    LET name == OrElse(Strip(OrElse(p.name, <<>>)), S_Product \o IntStr(p.id))
        colors ==
            IF p.type = "variable"
            THEN DedupColors(SeqMap(ExtractVariationColor, variations), {}, <<>>)
            ELSE LET opt_map == OptMapOf(p.attributes, <<>>)
                     key == OrElse(FindColorAttrName(opt_map), <<>>)
                 IN  DedupColors(DictGet(opt_map, key, <<>>), {}, <<>>)
    IN  [id |-> p.id,
         name |-> name,
         type |-> p.type,
         cat_ids |-> SeqMap(LAMBDA c : c.id,
                            SelectSeq(p.categories, LAMBDA c : c.id # NoneId)),
         cat_names |-> SeqMap(LAMBDA c : c.name,
                              SelectSeq(p.categories, LAMBDA c : Truthy(c.name))),
         colors |-> IF colors = <<>> THEN << <<>> >> ELSE colors,
         theme_id |-> NoneId,
         theme_name |-> NoneStr,
         cache_id |-> NoneId,
         cache_name |-> NoneStr]

(***************************************************************************)
(* Cache -> Theme discovery and the assignment of products.                *)
(***************************************************************************)
RECURSIVE ByIdOf(_, _)
\* by_id = {c["id"]: {**c, "children": []} for c in cats}
ByIdOf(cats, d) ==
    IF cats = <<>> THEN d ELSE ByIdOf(Tail(cats), DictPut(d, Head(cats).id, Head(cats)))

\* a bug: the children are collected in the reverse order
ChildrenOfReversed(by_id, id) ==
    LET vals == [i \in 1..Len(by_id) |-> by_id[Len(by_id) + 1 - i][2]]
    IN  SelectSeq(vals, LAMBDA c : /\ c.parent # NoneId
                                   /\ c.parent # 0
                                   /\ DictHas(by_id, c.parent)
                                   /\ c.parent = id)

\* _build_category_tree: by_id[id]["children"], in the order of by_id.values()
ChildrenOf(by_id, id) ==
    LET vals == [i \in 1..Len(by_id) |-> by_id[i][2]]
    IN  SelectSeq(vals, LAMBDA c : /\ c.parent # NoneId
                                   /\ c.parent # 0
                                   /\ DictHas(by_id, c.parent)
                                   /\ c.parent = id)

\* a bug: the root is any category whose name contains "cache"
CachesParentIndexLoose(cats) ==
    LET hit(i) == cats[i].name # NoneStr
                  /\ Contains(<<"c","a","c","h","e">>, Lower(cats[i].name))
    IN  IF \E i \in 1..Len(cats) : hit(i)
        THEN CHOOSE i \in 1..Len(cats) : hit(i) /\ \A j \in 1..(i - 1) : ~hit(j)
        ELSE 0

\* the search of _discover_caches_and_themes for the root: its index in cats, or 0
CachesParentIndex(cats) ==
    LET hit(i) == cats[i].name # NoneStr /\ Lower(cats[i].name) = S_caches
    IN  IF \E i \in 1..Len(cats) : hit(i)
        THEN CHOOSE i \in 1..Len(cats) : hit(i) /\ \A j \in 1..(i - 1) : ~hit(j)
        ELSE 0

\* a bug: the children of a theme are appended as themes too
ThemesOfCacheDeep(by_id, cache) ==
    LET theme_of(c) == [id |-> c.id, name |-> c.name,
                        cache_id |-> cache.id, cache_name |-> cache.name]
    IN  Flatten(SeqMap(LAMBDA c : <<theme_of(c)>> \o SeqMap(theme_of, ChildrenOf(by_id, c.id)),
                       ChildrenOf(by_id, cache.id)))

\* the themes appended for one cache
ThemesOfCache(by_id, cache) ==
    SeqMap(LAMBDA theme : [id |-> theme.id, name |-> theme.name,
                           cache_id |-> cache.id, cache_name |-> cache.name],
           ChildrenOf(by_id, cache.id))

\* _discover_caches_and_themes: the caches and the themes it stores
DiscoverCachesAndThemes(cats) ==
    LET by_id == ByIdOf(cats, <<>>)
        k == CachesParentIndex(cats)
        children == IF k = 0 THEN <<>> ELSE ChildrenOf(by_id, cats[k].id)
    IN  [caches |-> SeqMap(LAMBDA cache : [id |-> cache.id, name |-> cache.name],
                           children),
         themes |-> Flatten(SeqMap(LAMBDA cache : ThemesOfCache(by_id, cache),
                                   children))]

\* {x["id"]: x for x in xs}[id]: the last entry with that id
LastWithId(xs, id) == xs[CHOOSE i \in 1..Len(xs) :
                            xs[i].id = id /\ \A j \in (i + 1)..Len(xs) : xs[j].id # id]

HasId(xs, id) == \E i \in 1..Len(xs) : xs[i].id = id

\* the first cid of cat_ids that is a key of the dict built from xs: its index, or 0
FirstMatch(cat_ids, xs) ==
    IF \E i \in 1..Len(cat_ids) : HasId(xs, cat_ids[i])
    THEN CHOOSE i \in 1..Len(cat_ids) :
             HasId(xs, cat_ids[i]) /\ \A j \in 1..(i - 1) : ~HasId(xs, cat_ids[j])
    ELSE 0

\* a bug: one scan, in which the first id that is a theme or a cache wins
AssignOneSingleScan(p, themes, caches) ==
    LET i0 == FirstMatch(p.cat_ids, themes \o caches)
    IN  IF i0 = 0 THEN p
        ELSE IF HasId(themes, p.cat_ids[i0])
             THEN LET theme == LastWithId(themes, p.cat_ids[i0])
                  IN  [p EXCEPT !.theme_id = theme.id, !.theme_name = theme.name,
                                !.cache_id = theme.cache_id,
                                !.cache_name = theme.cache_name]
             ELSE LET cache == LastWithId(caches, p.cat_ids[i0])
                  IN  [p EXCEPT !.cache_id = cache.id, !.cache_name = cache.name]

\* the body of the loop of _assign_theme_cache_to_products, for one product
AssignOne(p, themes, caches) ==
    LET ti == FirstMatch(p.cat_ids, themes)
        ci == FirstMatch(p.cat_ids, caches)
    IN  IF ti # 0
        THEN LET theme == LastWithId(themes, p.cat_ids[ti])
             IN  [p EXCEPT !.theme_id = theme.id, !.theme_name = theme.name,
                           !.cache_id = theme.cache_id, !.cache_name = theme.cache_name]
        ELSE IF ci # 0
             THEN LET cache == LastWithId(caches, p.cat_ids[ci])
                  IN  [p EXCEPT !.cache_id = cache.id, !.cache_name = cache.name]
             ELSE p

\* _assign_theme_cache_to_products
AssignThemeCacheToProducts(products, themes, caches) ==
    SeqMap(LAMBDA p : AssignOne(p, themes, caches), products)

(***************************************************************************)
(* random.shuffle: Fisher-Yates, for i from the last index down to 1       *)
(* (0-based) swap x[i] with x[j], j drawn below i + 1.  The draws are the  *)
(* mixed-radix digits of a seed, so the seeds 0 .. n! - 1 give exactly the *)
(* n! permutations; at most MaxSeeds seeds are explored.                   *)
(***************************************************************************)
Min(a, b) == IF a < b THEN a ELSE b

RECURSIVE CapFact(_)
CapFact(n) == IF n <= 1 THEN 1 ELSE Min(MaxSeeds, n * CapFact(n - 1))

\* the seeds explored for a list of n elements
Seeds(n) == 0..(CapFact(n) - 1)

RECURSIVE DivFact(_, _)
DivFact(seed, i) == IF i <= 1 THEN seed ELSE DivFact(seed, i - 1) \div i

\* the draw j (0-based) for the 0-based index i
Draw(seed, i) == DivFact(seed, i) % (i + 1)

Swap(s, a, b) == [s EXCEPT ![a] = s[b], ![b] = s[a]]

RECURSIVE ShuffleFrom(_, _, _)
ShuffleFrom(s, seed, i) ==
    IF i < 1 THEN s ELSE ShuffleFrom(Swap(s, i + 1, Draw(seed, i) + 1), seed, i - 1)

Shuffle(s, seed) == ShuffleFrom(s, seed, Len(s) - 1)

(***************************************************************************)
(* Post building.  A record's id is f"{kind}_{ref}_{sub}_{_uid()}"; _uid() *)
(* draws a 64-bit random number, modelled as a fresh value: the pair of    *)
(* the build_posts() run and the position of the draw within it.           *)
(***************************************************************************)
THEME_REELS_PER_THEME == 5
THEME_WORLDS_PER_THEME == 3
THEME_MAINART_PER_THEME == 1
CACHE_ARTS_PER_CACHE == 3

Post(kind, ref, sub, type, garment, color, cache, theme) ==
    [id |-> [kind |-> kind, ref |-> ref, sub |-> sub, uid |-> <<0, 0>>],
     type |-> type, garment |-> garment, color |-> color, note |-> <<>>,
     cache |-> cache, theme |-> theme]

\* a bug: the model still is appended before the flat still
StillsOfColorModelFirst(p, color) ==
    LET cache == OrElse(p.cache_name, S_Unassigned)
        theme == OrElse(p.theme_name, <<>>)
    IN  << Post("model", p.id, color, "Product Still (Model)", p.name, color, cache, theme),
           Post("flat", p.id, color, "Product Still (Flat)", p.name, color, cache, theme) >>

\* the two records _product_stills appends for one product and one color
StillsOfColor(p, color) ==
    LET cache == OrElse(p.cache_name, S_Unassigned)
        theme == OrElse(p.theme_name, <<>>)
    IN  << Post("flat", p.id, color, "Product Still (Flat)", p.name, color, cache, theme),
           Post("model", p.id, color, "Product Still (Model)", p.name, color, cache, theme) >>

\* _product_stills
ProductStills(products) ==
    Flatten(SeqMap(LAMBDA p : Flatten(SeqMap(LAMBDA color : StillsOfColor(p, color),
                                             p.colors)),
                   products))

\* prods_by_theme.get(tname, []): products are grouped by their theme_name
ProdsByTheme(products, tname) ==
    SelectSeq(products, LAMBDA p : Truthy(p.theme_name) /\ p.theme_name = tname)

\* the pair pool of _theme_extras for theme t, before its shuffle
PairsOf(products, t) ==
    Flatten(SeqMap(LAMBDA p : SeqMap(LAMBDA c : <<p.name, c,
                                                  OrElse(p.cache_name, S_Unassigned)>>,
                                     p.colors),
                   ProdsByTheme(products, t.name)))

\* a bug: one reel per entry of the pool
ReelsOfPool(t, pairs) ==
    [k \in 1..Len(pairs) |->
        Post("treel", t.id, IntStr(k - 1), "Product Reel (Model)",
             pairs[k][1], pairs[k][2], pairs[k][3], t.name)]

\* a bug: past the end of the pool the index stays at its last entry
ReelsOfClamped(t, pairs) ==
    [k \in 1..THEME_REELS_PER_THEME |->
        LET i == k - 1
            pr == IF pairs # <<>> THEN pairs[Min(i, Len(pairs) - 1) + 1]
                  ELSE << <<>>, <<>>, S_Unassigned >>
        IN  Post("treel", t.id, IntStr(i), "Product Reel (Model)",
                 pr[1], pr[2], pr[3], t.name)]

\* the 5 reels of theme t from its shuffled pool
ReelsOf(t, pairs) ==
    [k \in 1..THEME_REELS_PER_THEME |->
        LET i == k - 1
            pr == IF pairs # <<>> THEN pairs[(i % Len(pairs)) + 1]
                  ELSE << <<>>, <<>>, S_Unassigned >>
        IN  Post("treel", t.id, IntStr(i), "Product Reel (Model)",
                 pr[1], pr[2], pr[3], t.name)]

WorldsOf(t) ==
    [k \in 1..THEME_WORLDS_PER_THEME |->
        Post("tworld", t.id, IntStr(k - 1), "World (Theme)", <<>>, <<>>,
             OrElse(t.cache_name, S_Unassigned), t.name)]

MainArtOf(t) ==
    [k \in 1..THEME_MAINART_PER_THEME |->
        Post("tmain", t.id, IntStr(k - 1), "Main Art (Theme)", <<>>, <<>>,
             OrElse(t.cache_name, S_Unassigned), t.name)]

\* the records _theme_extras appends for theme t, its pool shuffled by pseed
ExtrasOfTheme(products, t, pseed) ==
    LET pool == PairsOf(products, t)
        pairs == IF pool # <<>> THEN Shuffle(pool, pseed) ELSE pool
    IN  ReelsOf(t, pairs) \o WorldsOf(t) \o MainArtOf(t)

\* _theme_extras; pseeds[i] is the outcome of the shuffle for the i-th theme
ThemeExtras(products, themes, pseeds) ==
    Flatten([i \in 1..Len(themes) |-> ExtrasOfTheme(products, themes[i], pseeds[i])])

\* the seeds of the pool shuffles of one _theme_extras run
PoolSeeds(products, themes) ==
    { ps \in [1..Len(themes) -> 0..(MaxSeeds - 1)] :
        \A i \in 1..Len(themes) : ps[i] \in Seeds(Len(PairsOf(products, themes[i]))) }

\* _cache_extras
CacheExtras(caches) ==
    Flatten(SeqMap(LAMBDA c : [k \in 1..CACHE_ARTS_PER_CACHE |->
                                  Post("cworld", c.id, IntStr(k - 1), "Cache Art (Cache)",
                                       <<>>, <<>>, c.name, <<>>)],
                   caches))

\* the uids of one run, drawn in the order the records are created
Stamp(posts, g) == [i \in 1..Len(posts) |-> [posts[i] EXCEPT !.id.uid = <<g, i>>]]

\* all_posts of build_posts before the final shuffle
AllPosts(cat, pseeds, g) ==
    Stamp(ProductStills(cat.products)
            \o ThemeExtras(cat.products, cat.themes, pseeds)
            \o CacheExtras(cat.caches), g)

\* build_posts
BuildPosts(cat, pseeds, seed, g) == Shuffle(AllPosts(cat, pseeds, g), seed)

(***************************************************************************)
(* The remote store and wc_get.  A fetch returns what the store holds or   *)
(* raises (status other than 200, transport error).                        *)
(***************************************************************************)
N_Red == <<"R","e","d">>
N_red == <<"r","e","d">>
N_Blue == <<"B","l","u","e">>
N_Color == <<"C","o","l","o","r">>
N_Size == <<"S","i","z","e">>
N_Tee == <<"T","e","e">>
N_Hat == <<"H","a","t">>
N_Caches == <<"C","a","c","h","e","s">>
N_Summer == <<"S","u","m","m","e","r">>
N_Winter == <<"W","i","n","t","e","r">>
N_Beach == <<"B","e","a","c","h">>
N_Snow == <<"S","n","o","w">>

Cat(id, name, parent) == [id |-> id, name |-> name, parent |-> parent]

RawProduct(id, name, type, categories, attributes) ==
    [id |-> id, name |-> name, type |-> type, categories |-> categories,
     attributes |-> attributes]

\* the variations the store holds for product pid
VariationsOf(rem, pid) == DictGet(rem.variations, pid, <<>>)

\* one simple product with a size and one color, no categories
StoreTee ==
    [categories |-> <<>>,
     products |-> << RawProduct(1, N_Tee, "simple", <<>>,
                                << [name |-> N_Size, options |-> << <<"M">> >>],
                                   [name |-> N_Color, options |-> <<N_Red, <<" ">>>>] >>) >>,
     variations |-> <<>>]

\* one cache and no published product
StoreEmptyCache ==
    [categories |-> << Cat(10, N_Caches, 0), Cat(11, N_Summer, 10) >>,
     products |-> <<>>,
     variations |-> <<>>]

\* one variable product whose variations repeat a color in another case
StoreHat ==
    [categories |-> <<>>,
     products |-> << RawProduct(2, N_Hat, "variable", <<>>, <<>>) >>,
     variations |-> << <<2, << [attributes |-> << [name |-> N_Color, option |-> N_Red] >>],
                               [attributes |-> << [name |-> N_Color,
                                                   option |-> N_red \o <<" ">>] >>] >> >> >>]

StoresSmall == {StoreTee, StoreEmptyCache, StoreHat}

\* one variable product in the one cache of the store
StoreHatInCache ==
    [categories |-> << Cat(10, N_Caches, 0), Cat(11, N_Summer, 10) >>,
     products |-> << RawProduct(2, N_Hat, "variable",
                                << [id |-> 11, name |-> N_Summer] >>, <<>>) >>,
     variations |-> << <<2, << [attributes |-> << [name |-> N_Color,
                                                   option |-> N_Red] >>] >> >> >>]

(***************************************************************************)
(* The stores of the specification of the derivation (sync, then           *)
(* generate): six category lists, and two products, of which the first     *)
(* has every category list of at most MaxCatIds ids.                       *)
(***************************************************************************)
N_Deep == <<"D","e","e","p">>
N_Other == <<"O","t","h","e","r">>
N_CACHES == <<"C","A","C","H","E","S">>
N_Cache == <<"C","a","c","h","e">>

\* Caches -> Summer -> Beach -> Deep, Caches -> Winter -> Snow, and a root
HFull ==
    << Cat(10, N_Caches, 0), Cat(11, N_Summer, 10), Cat(12, N_Winter, 10),
       Cat(21, N_Beach, 11), Cat(22, N_Snow, 12), Cat(31, N_Deep, 21),
       Cat(40, N_Other, 0) >>

\* the same tree listed leaves first, its root in upper case
HReordered ==
    << Cat(22, N_Snow, 12), Cat(12, N_Winter, 10), Cat(10, N_CACHES, 0),
       Cat(21, N_Beach, 11), Cat(11, N_Summer, 10), Cat(40, N_Other, NoneId) >>

\* the same tree under a root that is not named "caches"
HNoRoot ==
    << Cat(10, N_Cache, 0), Cat(11, N_Summer, 10), Cat(12, N_Winter, 10),
       Cat(21, N_Beach, 11), Cat(22, N_Snow, 12) >>

\* two themes of the same name under different caches
HSameNames ==
    << Cat(10, N_Caches, 0), Cat(11, N_Summer, 10), Cat(12, N_Winter, 10),
       Cat(21, N_Beach, 11), Cat(22, N_Beach, 12) >>

N_Dune == <<"D","u","n","e">>

\* the root under another category, the themes listed in another order than
\* their caches, two themes in one cache, a category below a theme and one
\* whose parent is not in the list
HCrossed ==
    << Cat(40, N_Other, 0), Cat(10, N_Caches, 40), Cat(11, N_Summer, 10),
       Cat(12, N_Winter, 10), Cat(22, N_Snow, 12), Cat(23, N_Dune, 11),
       Cat(21, N_Beach, 11), Cat(31, N_Deep, 99), Cat(32, N_Deep, 21) >>

Hierarchies == {<<>>, HFull, HReordered, HNoRoot, HSameNames, HCrossed}

CatIdPool == {11, 12, 21, 22}

\* the category lists of a product: no id twice
CatIdLists ==
    UNION { { c \in [1..n -> CatIdPool] : \A i, j \in 1..n : i # j => c[i] # c[j] } :
            n \in 0..MaxCatIds }

\* the name the store gives category id
CatName(h, id) ==
    IF \E i \in 1..Len(h) : h[i].id = id
    THEN h[CHOOSE i \in 1..Len(h) : h[i].id = id].name
    ELSE N_Other

StoreOf(h, cids) ==
    [categories |-> h,
     products |->
        << RawProduct(1, N_Tee, "simple",
                      [i \in 1..Len(cids) |-> [id |-> cids[i], name |-> CatName(h, cids[i])]],
                      << [name |-> N_Color, options |-> <<N_Red, N_Blue>>] >>),
           RawProduct(2, N_Hat, "variable",
                      << [id |-> 21, name |-> CatName(h, 21)] >>, <<>>) >>,
     variations |-> << <<2, << [attributes |-> << [name |-> N_Color,
                                                   option |-> N_Red] >>] >> >> >>]

StoresBuild == { StoreOf(h, cids) : h \in Hierarchies, cids \in CatIdLists }

(***************************************************************************)
(* The stores of the specification of the quotas: the hierarchy HFull and  *)
(* three products, a simple one with two colors in each of four category   *)
(* lists, a variable one of theme Beach with two or five colors, and one   *)
(* with no name, no color and no category.                                 *)
(***************************************************************************)
N_Green == <<"G","r","e","e","n">>
N_Black == <<"B","l","a","c","k">>
N_White == <<"W","h","i","t","e">>

HatColors == <<N_Red, N_Blue, N_Green, N_Black, N_White>>

HatColorCounts == {2, 5}

WideCatIdLists == {<<>>, <<21>>, <<22>>, <<11>>}

StoreWide(cids, n) ==
    [categories |-> HFull,
     products |->
        << RawProduct(1, N_Tee, "simple",
                      [i \in 1..Len(cids) |-> [id |-> cids[i], name |-> CatName(HFull, cids[i])]],
                      << [name |-> N_Color, options |-> <<N_Red, N_Blue>>] >>),
           RawProduct(2, N_Hat, "variable",
                      << [id |-> 21, name |-> CatName(HFull, 21)] >>, <<>>),
           RawProduct(3, NoneStr, "simple", <<>>, <<>>) >>,
     variations |->
        << <<2, [i \in 1..(n + 1) |->
                    [attributes |-> << [name |-> N_Color,
                                        option |-> IF i <= n THEN HatColors[i]
                                                   ELSE N_red \o <<" ">>] >>]]>> >>]

StoresWide == { StoreWide(cids, n) : cids \in WideCatIdLists, n \in HatColorCounts }

(***************************************************************************)
(* The stores of the specification of the normalisation: one product,      *)
(* simple or variable, whose second attribute has every name of AttrNames  *)
(* and every list of at most MaxOpts values.                               *)
(***************************************************************************)
N_COLOUR == <<"C","O","L","O","U","R">>
N_M == <<"M">>

AttrNames == {N_Color, N_COLOUR, N_Size}

\* the options of an attribute of a simple product
SimpleOptions == {N_Red, N_red, N_Red \o <<" ">>, N_Blue, <<" ">>}

\* the option of an attribute of a variation: a string or None
VariationOptions == SimpleOptions \cup {NoneStr}

ListsOf(S) == UNION { [1..n -> S] : n \in 0..MaxOpts }

StoreSimple(aname, opts) ==
    [categories |-> <<>>,
     products |-> << RawProduct(1, N_Tee, "simple", <<>>,
                                << [name |-> N_Size, options |-> <<N_M>>],
                                   [name |-> aname, options |-> opts] >>) >>,
     variations |-> <<>>]

StoreVariable(aname, opts) ==
    [categories |-> <<>>,
     products |-> << RawProduct(1, N_Tee, "variable", <<>>,
                                << [name |-> N_Color, options |-> <<N_Blue>>] >>) >>,
     variations |->
        << <<1, [i \in 1..Len(opts) |->
                    [attributes |-> << [name |-> N_Size, option |-> N_M],
                                       [name |-> aname, option |-> opts[i]] >>]]>> >>]

StoresNorm ==
    { StoreSimple(a, o) : a \in AttrNames, o \in ListsOf(SimpleOptions) }
        \cup { StoreVariable(a, o) : a \in AttrNames, o \in ListsOf(VariationOptions) }

\* where a sync may fail: at the fetch of the categories, of the products, or of
\* the variations of the first variable product
FailPoints(rem) ==
    {"none", "categories", "products"}
        \cup (IF \E i \in 1..Len(rem.products) : rem.products[i].type = "variable"
              THEN {"variations"} ELSE {})

EmptyCatalog ==
    [products |-> <<>>, categories |-> <<>>, caches |-> <<>>, themes |-> <<>>,
     synced_at |-> 0]

\* WC_CATALOG["categories"] as sync_wc writes it
FetchedCategories(rem) == SeqMap(LAMBDA c : Cat(c.id, c.name, c.parent), rem.categories)

\* WC_CATALOG["products"] as sync_wc writes it: normalized, not yet assigned
FetchedProducts(rem) ==
    SeqMap(LAMBDA p : NormalizeProduct(p, VariationsOf(rem, p.id)), rem.products)

\* a bug: sync_wc swallows the exception of a failed fetch and returns
SyncWcSwallow(cat, rem, failAt, now) ==
    LET cats == FetchedCategories(rem)
        h == DiscoverCachesAndThemes(cats)
        assigned == AssignThemeCacheToProducts(FetchedProducts(rem), h.themes, h.caches)
    IN  IF failAt = "categories" THEN [catalog |-> cat, ok |-> TRUE]
        ELSE IF failAt \in {"products", "variations"}
             THEN [catalog |-> [cat EXCEPT !.categories = cats], ok |-> TRUE]
             ELSE [catalog |-> [products |-> assigned, categories |-> cats,
                                caches |-> h.caches, themes |-> h.themes,
                                synced_at |-> now],
                   ok |-> TRUE]

\* sync_wc up to the point where it raises, or to its end: the catalog it leaves
\* and whether it returned
SyncWc(cat, rem, failAt, now) ==
    LET cats == FetchedCategories(rem)
        c1 == [cat EXCEPT !.categories = cats]
        h == DiscoverCachesAndThemes(cats)
        assigned == AssignThemeCacheToProducts(FetchedProducts(rem), h.themes, h.caches)
    IN  IF failAt = "categories" THEN [catalog |-> cat, ok |-> FALSE]
        ELSE IF failAt \in {"products", "variations"} THEN [catalog |-> c1, ok |-> FALSE]
        ELSE [catalog |-> [products |-> assigned, categories |-> cats,
                           caches |-> h.caches, themes |-> h.themes,
                           synced_at |-> now],
              ok |-> TRUE]

(***************************************************************************)
(* Persistence.                                                            *)
(***************************************************************************)
NoFile == [exists |-> FALSE]

\* what save_state writes
SavedState(posts, lks, cat) ==
    [exists |-> TRUE, posts |-> posts, locks |-> lks, wc_catalog |-> cat]

\* data.json as an earlier run of a configured process left it after a sync of
\* a store with a cache and no published product, a generation and the lock
\* of one row
FileCacheLocked ==
    LET cat == SyncWc(EmptyCatalog, StoreEmptyCache, "none", 1).catalog
        posts == BuildPosts(cat, <<>>, 0, 0)
    IN  SavedState(posts, {posts[2].id}, cat)

DataFiles == {NoFile, FileCacheLocked}

\* load_state
LoadState(file) ==
    IF file.exists
    THEN [posts |-> file.posts, locks |-> file.locks, wc_catalog |-> file.wc_catalog]
    ELSE [posts |-> <<>>, locks |-> {}, wc_catalog |-> EmptyCatalog]

(***************************************************************************)
(* The index route: one action per value of the "action" field.  Every     *)
(* POST request ends with save_state().                                    *)
(***************************************************************************)
Snapshot == [rows |-> rows, locks |-> locks, catalog |-> catalog]

\* a post_id that no row of any roster carries (a stale or made-up id)
UnknownId == [kind |-> "flat", ref |-> 0, sub |-> <<>>, uid |-> <<0, 0>>]
\* the empty post_id
EmptyId == [kind |-> "", ref |-> 0, sub |-> <<>>, uid |-> <<0, 0>>]

RowIds(rs) == {rs[i].id : i \in 1..Len(rs)}

\* the history of a process that has served no request
NoHistory == [made |-> Range(rows), gone |-> {}]

Init ==
    /\ wcReady \in BOOLEAN
    /\ remote \in StoresSmall
    /\ disk \in DataFiles
    /\ rows = LoadState(disk).posts
    /\ locks = LoadState(disk).locks
    /\ catalog = LoadState(disk).wc_catalog
    /\ msg = ""
    /\ act = ""
    /\ arg = EmptyId
    /\ gen = 0
    /\ clock = 1
    /\ pre = [rows |-> rows, locks |-> locks, catalog |-> catalog]
    /\ thr = <<>>
    /\ hist = NoHistory

\* what every POST request records and saves
Request(a) ==
    /\ act' = a
    /\ pre' = Snapshot
    /\ disk' = SavedState(rows', locks', catalog')
    /\ hist' = [made |-> IF a = "generate" /\ gen' # gen THEN Range(rows') ELSE hist.made,
                gone |-> IF a = "clear_unlocked"
                         THEN hist.gone \cup (Range(rows) \ Range(rows'))
                         ELSE hist.gone]
    /\ UNCHANGED <<wcReady, remote, thr>>

\* action == "sync_wc"
SyncAction ==
    /\ clock <= MaxSync
    /\ IF ~wcReady
       THEN /\ msg' = "WooCommerce not configured"
            /\ UNCHANGED <<catalog, clock>>
       ELSE \E failAt \in FailPoints(remote) :
              LET r == SyncWc(catalog, remote, failAt, clock + 1)
              IN  /\ catalog' = r.catalog
                  /\ clock' = clock + 1
                  /\ msg' = IF r.ok THEN "Synced" ELSE "Sync failed"
    /\ UNCHANGED <<rows, locks, gen>>
    /\ arg' = EmptyId
    /\ Request("sync_wc")

\* the rosters one run of build_posts may return from catalog cat
Rosters(cat, g) ==
    { BuildPosts(cat, ps, seed, g) :
        ps \in PoolSeeds(cat.products, cat.themes),
        seed \in Seeds(Len(AllPosts(cat, [i \in 1..Len(cat.themes) |-> 0], g))) }

\* a bug: the locks survive the generation
KeptLockSet(lks) == lks

\* LOCKS = set() of the generate branch
NewLockSet(lks) == {}

\* action == "generate"
Generate ==
    /\ gen < MaxGen
    /\ LET needSync == catalog.products = <<>> /\ wcReady
       IN  \E failAt \in (IF needSync THEN FailPoints(remote) ELSE {"none"}) :
             LET r == IF needSync THEN SyncWc(catalog, remote, failAt, clock + 1)
                      ELSE [catalog |-> catalog, ok |-> TRUE]
             IN  /\ needSync => clock <= MaxSync
                 /\ catalog' = r.catalog
                 /\ clock' = IF needSync THEN clock + 1 ELSE clock
                 /\ IF ~r.ok
                    THEN /\ msg' = "Generate failed"
                         /\ UNCHANGED <<rows, locks, gen>>
                    ELSE /\ rows' \in Rosters(r.catalog, gen + 1)
                         /\ locks' = NewLockSet(locks)
                         /\ gen' = gen + 1
                         /\ msg' = IF catalog.products = <<>> /\ ~wcReady
                                   THEN "WooCommerce not configured; cannot generate."
                                   ELSE "Generated"
    /\ arg' = EmptyId
    /\ Request("generate")

\* a bug: the toggle only ever adds the id
ToggledAddOnly(lks, pid) == IF pid = EmptyId THEN lks ELSE lks \cup {pid}

\* LOCKS after the lock_toggle branch: "if pid:" skips the empty post_id
Toggled(lks, pid) ==
    IF pid = EmptyId THEN lks
    ELSE IF pid \in lks THEN lks \ {pid} ELSE lks \cup {pid}

\* action == "lock_toggle"
LockToggle ==
    /\ \E pid \in RowIds(rows) \cup {UnknownId, EmptyId} :
         /\ locks' = Toggled(locks, pid)
         /\ arg' = pid
    /\ msg' = ""
    /\ UNCHANGED <<rows, catalog, gen, clock>>
    /\ Request("lock_toggle")

\* a bug: every index is taken as unlocked
UnlockedIdxAll(rs, lks) == [i \in 1..Len(rs) |-> i]

\* the indices of the rows whose id is not locked, ascending
UnlockedIdx(rs, lks) ==
    SelectSeq([i \in 1..Len(rs) |-> i], LAMBDA i : rs[i].id \notin lks)

\* a bug: the first of the shuffled rows is written at every unlocked index
ReinsertFirst(rs, unlocked_idx, unlocked) ==
    [k \in 1..Len(rs) |->
        IF \E i \in 1..Len(unlocked_idx) : unlocked_idx[i] = k
        THEN unlocked[1]
        ELSE rs[k]]

\* new_posts of the reroll branch: unlocked[i] written at unlocked_idx[i]
Reinsert(rs, unlocked_idx, unlocked) ==
    [k \in 1..Len(rs) |->
        IF \E i \in 1..Len(unlocked_idx) : unlocked_idx[i] = k
        THEN unlocked[CHOOSE i \in 1..Len(unlocked_idx) : unlocked_idx[i] = k]
        ELSE rs[k]]

\* a bug: the whole roster is shuffled, the locks ignored
RerolledWhole(rs, lks, seed) == Shuffle(rs, seed % CapFact(Len(rs)))

\* POSTS after the reroll branch, the shuffle having the outcome seed
Rerolled(rs, lks, seed) ==
    LET unlocked_idx == UnlockedIdx(rs, lks)
        unlocked == [i \in 1..Len(unlocked_idx) |-> rs[unlocked_idx[i]]]
    IN  Reinsert(rs, unlocked_idx, Shuffle(unlocked, seed))

\* action == "reroll"
Reroll ==
    /\ \E seed \in Seeds(Len(UnlockedIdx(rows, locks))) :
         rows' = Rerolled(rows, locks, seed)
    /\ msg' = "Re-rolled unlocked posts."
    /\ UNCHANGED <<locks, catalog, gen, clock>>
    /\ arg' = EmptyId
    /\ Request("reroll")

\* a bug: the test of the filter is inverted
ClearedInverted(rs, lks) == SelectSeq(rs, LAMBDA p : p.id \notin lks)

\* a bug: every row is dropped
ClearedAll(rs, lks) == SelectSeq(rs, LAMBDA p : FALSE)

\* POSTS after the clear_unlocked branch
Cleared(rs, lks) == SelectSeq(rs, LAMBDA p : p.id \in lks)

\* action == "clear_unlocked"
ClearUnlocked ==
    /\ rows' = Cleared(rows, locks)
    /\ msg' = "Cleared all unlocked posts."
    /\ UNCHANGED <<locks, catalog, gen, clock>>
    /\ arg' = EmptyId
    /\ Request("clear_unlocked")

Next == SyncAction \/ Generate \/ LockToggle \/ Reroll \/ ClearUnlocked

Spec == Init /\ [][Next]_vars

(***************************************************************************)
(* The derivation alone: a configured process with no data.json syncs one  *)
(* of the stores above and generates.                                      *)
(***************************************************************************)
InitBuild ==
    /\ wcReady = TRUE
    /\ remote \in StoresBuild
    /\ disk = NoFile
    /\ rows = LoadState(disk).posts
    /\ locks = LoadState(disk).locks
    /\ catalog = LoadState(disk).wc_catalog
    /\ msg = ""
    /\ act = ""
    /\ arg = EmptyId
    /\ gen = 0
    /\ clock = 1
    /\ pre = [rows |-> rows, locks |-> locks, catalog |-> catalog]
    /\ thr = <<>>
    /\ hist = NoHistory

\* the first generate request of the process
FirstGenerate == gen = 0 /\ Generate

\* the first sync request of the process
FirstSync == clock = 1 /\ SyncAction

NextBuild == FirstSync \/ FirstGenerate

SpecBuild == InitBuild /\ [][NextBuild]_vars

(***************************************************************************)
(* The quotas: a configured process with no data.json syncs one of the     *)
(* stores with three products and generates.                               *)
(***************************************************************************)
InitWide ==
    /\ wcReady = TRUE
    /\ remote \in StoresWide
    /\ disk = NoFile
    /\ rows = LoadState(disk).posts
    /\ locks = LoadState(disk).locks
    /\ catalog = LoadState(disk).wc_catalog
    /\ msg = ""
    /\ act = ""
    /\ arg = EmptyId
    /\ gen = 0
    /\ clock = 1
    /\ pre = [rows |-> rows, locks |-> locks, catalog |-> catalog]
    /\ thr = <<>>
    /\ hist = NoHistory

NextWide == SyncAction \/ FirstGenerate

SpecWide == InitWide /\ [][NextWide]_vars

(***************************************************************************)
(* The normalisation alone: a configured process with no data.json syncs   *)
(* one of the stores with one product.                                     *)
(***************************************************************************)
InitNorm ==
    /\ wcReady = TRUE
    /\ remote \in StoresNorm
    /\ disk = NoFile
    /\ rows = LoadState(disk).posts
    /\ locks = LoadState(disk).locks
    /\ catalog = LoadState(disk).wc_catalog
    /\ msg = ""
    /\ act = ""
    /\ arg = EmptyId
    /\ gen = 0
    /\ clock = 1
    /\ pre = [rows |-> rows, locks |-> locks, catalog |-> catalog]
    /\ thr = <<>>
    /\ hist = NoHistory

NextNorm == SyncAction

SpecNorm == InitNorm /\ [][NextNorm]_vars

(***************************************************************************)
(* Two requests served at the same time.  app.run() serves each request in *)
(* a thread of its own and index() takes no lock, so the statements of two *)
(* handlers interleave.  A step below is one statement of a handler (one   *)
(* fetch and the store of its result in sync_wc); the interpreter may      *)
(* switch threads more often than that.  thr[t] holds the request of       *)
(* thread t, its position, and its local variables.  The uids a generate   *)
(* draws are fresh: thread t stamps its records with t, sync_wc run by     *)
(* thread t reads the time t + 1.                                          *)
(***************************************************************************)
Threads == {1, 2}

\* the roster and the catalog the two requests find: a synced store with one
\* product and its two stills
ConcCatalog == SyncWc(EmptyCatalog, StoreTee, "none", 1).catalog
ConcRows == BuildPosts(ConcCatalog, <<>>, 0, 0)

FirstPc(op) ==
    CASE op = "sync_wc" -> "s1"
      [] op = "generate" -> "g1"
      [] op = "lock_toggle" -> "t1"
      [] op = "reroll" -> "r1"
      [] op = "clear_unlocked" -> "c1"

\* the requests: the five actions, lock_toggle with the id of a row
ConcRequests ==
    { [op |-> o, pid |-> EmptyId] : o \in {"sync_wc", "generate", "reroll", "clear_unlocked"} }
        \cup { [op |-> "lock_toggle", pid |-> id] : id \in RowIds(ConcRows) }

ThreadOf(req) ==
    [op |-> req.op, pid |-> req.pid, pc |-> FirstPc(req.op), ret |-> "done",
     unlocked_idx |-> <<>>, unlocked |-> <<>>, new_posts |-> <<>>]

\* the two requests find that roster, or the empty state of a fresh process
InitConc ==
    /\ wcReady = TRUE
    /\ remote = StoreHatInCache
    /\ \/ catalog = ConcCatalog /\ rows = ConcRows
       \/ catalog = EmptyCatalog /\ rows = <<>>
    /\ locks \in SUBSET RowIds(rows)
    /\ disk = SavedState(rows, locks, catalog)
    /\ msg = ""
    /\ act = ""
    /\ arg = EmptyId
    /\ gen = 0
    /\ clock = 1
    /\ pre = [rows |-> rows, locks |-> locks, catalog |-> catalog]
    /\ thr \in [Threads -> {ThreadOf(r) : r \in ConcRequests}]
    /\ hist = NoHistory

At(t, pc) == thr[t].pc = pc

Goto(t, pc) == thr' = [thr EXCEPT ![t].pc = pc]

\* the request ends: index() calls save_state()
Finish(t) ==
    /\ thr' = [thr EXCEPT ![t].pc = "done"]
    /\ disk' = SavedState(rows', locks', catalog')

ConcFrame == UNCHANGED <<wcReady, remote, msg, act, arg, gen, clock, pre, hist>>

\* lines 407-410
TToggle(t) ==
    /\ At(t, "t1")
    /\ locks' = Toggled(locks, thr[t].pid)
    /\ UNCHANGED <<rows, catalog>>
    /\ Finish(t)
    /\ ConcFrame

\* line 424
TClear(t) ==
    /\ At(t, "c1")
    /\ rows' = Cleared(rows, locks)
    /\ UNCHANGED <<locks, catalog>>
    /\ Finish(t)
    /\ ConcFrame

\* line 414
TRerollIdx(t) ==
    /\ At(t, "r1")
    /\ thr' = [thr EXCEPT ![t].pc = "r2", ![t].unlocked_idx = UnlockedIdx(rows, locks)]
    /\ UNCHANGED <<rows, locks, catalog, disk>>
    /\ ConcFrame

\* lines 415-416: POSTS[i] raises IndexError when POSTS has become shorter
TRerollRows(t) ==
    /\ At(t, "r2")
    /\ LET idx == thr[t].unlocked_idx
       IN  IF \E i \in 1..Len(idx) : idx[i] > Len(rows)
           THEN Goto(t, "error")
           ELSE \E seed \in Seeds(Len(idx)) :
                  thr' = [thr EXCEPT ![t].pc = "r3",
                                     ![t].unlocked =
                                         Shuffle([i \in 1..Len(idx) |-> rows[idx[i]]], seed)]
    /\ UNCHANGED <<rows, locks, catalog, disk>>
    /\ ConcFrame

\* line 417
TRerollCopy(t) ==
    /\ At(t, "r3")
    /\ thr' = [thr EXCEPT ![t].pc = "r4", ![t].new_posts = rows]
    /\ UNCHANGED <<rows, locks, catalog, disk>>
    /\ ConcFrame

\* lines 418-420: new_posts[idx] raises IndexError when the copy is shorter
TRerollWrite(t) ==
    /\ At(t, "r4")
    /\ UNCHANGED <<locks, catalog>>
    /\ LET idx == thr[t].unlocked_idx
       IN  IF \E i \in 1..Len(idx) : idx[i] > Len(thr[t].new_posts)
           THEN /\ Goto(t, "error")
                /\ UNCHANGED <<rows, disk>>
           ELSE /\ rows' = Reinsert(thr[t].new_posts, idx, thr[t].unlocked)
                /\ Finish(t)
    /\ ConcFrame

\* lines 394-398: generate runs sync_wc first when there are no products
TGenCheck(t) ==
    /\ At(t, "g1")
    /\ thr' = IF catalog.products = <<>> /\ wcReady
              THEN [thr EXCEPT ![t].pc = "s1", ![t].ret = "g2"]
              ELSE [thr EXCEPT ![t].pc = "g2"]
    /\ UNCHANGED <<rows, locks, catalog, disk>>
    /\ ConcFrame

\* line 399
TGenBuild(t) ==
    /\ At(t, "g2")
    /\ rows' \in Rosters(catalog, t)
    /\ Goto(t, "g3")
    /\ UNCHANGED <<locks, catalog, disk>>
    /\ ConcFrame

\* line 400
TGenLocks(t) ==
    /\ At(t, "g3")
    /\ locks' = NewLockSet(locks)
    /\ UNCHANGED <<rows, catalog>>
    /\ Finish(t)
    /\ ConcFrame

\* lines 241-245
TSyncCategories(t) ==
    /\ At(t, "s1")
    /\ catalog' = [catalog EXCEPT !.categories = FetchedCategories(remote)]
    /\ Goto(t, "s2")
    /\ UNCHANGED <<rows, locks, disk>>
    /\ ConcFrame

\* lines 247-249
TSyncProducts(t) ==
    /\ At(t, "s2")
    /\ catalog' = [catalog EXCEPT !.products = FetchedProducts(remote)]
    /\ Goto(t, "s3")
    /\ UNCHANGED <<rows, locks, disk>>
    /\ ConcFrame

\* line 251
TSyncDiscover(t) ==
    /\ At(t, "s3")
    /\ LET h == DiscoverCachesAndThemes(catalog.categories)
       IN  catalog' = [catalog EXCEPT !.caches = h.caches, !.themes = h.themes]
    /\ Goto(t, "s4")
    /\ UNCHANGED <<rows, locks, disk>>
    /\ ConcFrame

\* lines 252-255; a sync_wc request then ends, a generate goes on
TSyncAssign(t) ==
    /\ At(t, "s4")
    /\ catalog' = [catalog EXCEPT
                     !.products = AssignThemeCacheToProducts(catalog.products,
                                                             catalog.themes, catalog.caches),
                     !.synced_at = t + 1]
    /\ Goto(t, thr[t].ret)
    /\ UNCHANGED <<rows, locks>>
    /\ disk' = SavedState(rows', locks', catalog')
    /\ ConcFrame

NextConc ==
    \E t \in Threads :
        \/ TToggle(t) \/ TClear(t)
        \/ TRerollIdx(t) \/ TRerollRows(t) \/ TRerollCopy(t) \/ TRerollWrite(t)
        \/ TGenCheck(t) \/ TGenBuild(t) \/ TGenLocks(t)
        \/ TSyncCategories(t) \/ TSyncProducts(t) \/ TSyncDiscover(t) \/ TSyncAssign(t)

SpecConc == InitConc /\ [][NextConc]_vars

(***************************************************************************)
(* Properties of the handlers.  pre holds rows, locks and catalog as the   *)
(* request named by act found them.                                        *)
(***************************************************************************)
\* number of rows of rs that carry id
CountId(rs, id) == Cardinality({i \in 1..Len(rs) : rs[i].id = id})

LockedAt(rs, lks) == {i \in 1..Len(rs) : rs[i].id \in lks}

\* C1: reroll leaves the multiset of row ids unchanged, every locked row keeps
\* its index, and a row at an unlocked index comes from an unlocked index.
C1_RerollKeepsLocked ==
    act = "reroll" =>
        /\ Len(rows) = Len(pre.rows)
        /\ \A id \in RowIds(rows) \cup RowIds(pre.rows) :
               CountId(rows, id) = CountId(pre.rows, id)
        /\ \A i \in LockedAt(pre.rows, pre.locks) : rows[i] = pre.rows[i]
        /\ \A i \in (1..Len(rows)) \ LockedAt(pre.rows, pre.locks) :
               \E j \in (1..Len(rows)) \ LockedAt(pre.rows, pre.locks) :
                   rows[i] = pre.rows[j]

\* a reroll that moved rows while a locked row sat between unlocked ones
C1_Witness ==
    /\ act = "reroll"
    /\ rows # pre.rows
    /\ \E i \in LockedAt(pre.rows, pre.locks) :
           \E a, b \in (1..Len(rows)) \ LockedAt(pre.rows, pre.locks) : a < i /\ i < b

\* C2: clear_unlocked keeps exactly the rows whose id is locked, in their
\* previous relative order, and leaves the lock set unchanged.
C2_ClearKeepsLocked ==
    act = "clear_unlocked" =>
        /\ locks = pre.locks
        /\ Len(rows) = Cardinality(LockedAt(pre.rows, pre.locks))
        /\ \A j \in LockedAt(pre.rows, pre.locks) :
               \E i \in 1..Len(rows) : rows[i] = pre.rows[j]
        /\ \A i, k \in 1..Len(rows) :
               i < k => \E a, b \in LockedAt(pre.rows, pre.locks) :
                            a < b /\ pre.rows[a] = rows[i] /\ pre.rows[b] = rows[k]

\* a clear that dropped rows and kept at least two
C2_Witness ==
    /\ act = "clear_unlocked"
    /\ Len(rows) >= 2
    /\ Len(rows) < Len(pre.rows)

\* C3 as stated: after a generate request the lock set is empty, whatever the
\* request found.
C3_Original == act = "generate" => locks = {}

\* C3 amended: after a generate request that did not fail in its sync, the
\* lock set is empty, whatever the lock set and the roster were.
C3_GenerateResetsLocks ==
    (act = "generate" /\ msg # "Generate failed") => locks = {}

\* a generate that replaced a roster with a locked row
C3_Witness ==
    /\ act = "generate"
    /\ msg = "Generated"
    /\ pre.locks \cap RowIds(pre.rows) # {}
    /\ rows # <<>>

\* C4: generate with no products and no configured source changes nothing.
C4_Original ==
    (act = "generate" /\ pre.catalog.products = <<>> /\ ~wcReady) =>
        /\ rows = pre.rows
        /\ locks = pre.locks
        /\ catalog = pre.catalog

\* C5: a sync in which a fetch failed leaves the catalog as it was.
C5_Original ==
    (act = "sync_wc" /\ msg = "Sync failed") => catalog = pre.catalog

\* C9 as stated: a lock-toggle with an id of no row changes neither the rows nor
\* the lock set.
C9_Original ==
    (act = "lock_toggle" /\ arg \notin RowIds(pre.rows)) =>
        rows = pre.rows /\ locks = pre.locks

\* C9 amended: a lock-toggle with an id of no row leaves the rows unchanged and
\* changes the lock set by that id alone: a non-empty id is added when absent
\* and removed when present, the empty id changes nothing.
C9_ToggleUnknownId ==
    (act = "lock_toggle" /\ arg \notin RowIds(pre.rows)) =>
        /\ rows = pre.rows
        /\ locks \ {arg} = pre.locks \ {arg}
        /\ arg = EmptyId => locks = pre.locks
        /\ arg # EmptyId => (arg \in locks <=> arg \notin pre.locks)

\* an unknown id removed from the lock set of a non-empty roster
C9_Witness ==
    /\ act = "lock_toggle"
    /\ arg = UnknownId
    /\ arg \notin RowIds(pre.rows)
    /\ arg \in pre.locks
    /\ rows # <<>>

\* C15: every row of the roster is one of the rows the last generate made (or
\* the process loaded), with its id and fields as made; no two rows carry the
\* same id; and no row that a clear_unlocked dropped is in the roster, nor is
\* its id.
C15_RowsOnlyFromGenerate ==
    /\ Range(rows) \subseteq hist.made
    /\ \A i, j \in 1..Len(rows) : i # j => rows[i].id # rows[j].id
    /\ Range(rows) \cap hist.gone = {}
    /\ RowIds(rows) \cap {r.id : r \in hist.gone} = {}
    /\ act \in {"lock_toggle", "reroll", "clear_unlocked"} =>
           Range(rows) \subseteq Range(pre.rows)

\* a reroll that moved rows of a roster from which a clear_unlocked had
\* dropped a row
C15_Witness ==
    /\ act = "reroll"
    /\ rows # pre.rows
    /\ hist.gone # {}
    /\ Cardinality(hist.made) > Len(rows)

\* C16: the lock set of the process at its start holds ids of rows only, and
\* every request other than a lock_toggle with an id of no row of the roster
\* keeps it so: a generate (failed or not), a reroll, a clear_unlocked, a
\* lock_toggle of a row of the roster and a sync.
C16_NoOrphanedLock ==
    /\ locks \subseteq RowIds(rows)
    /\ [][(/\ locks \subseteq RowIds(rows)
           /\ ~(act' = "lock_toggle" /\ arg' \notin RowIds(rows)))
             => locks' \subseteq RowIds(rows')]_vars

\* a clear_unlocked that dropped rows and left locked ones
C16_Witness ==
    /\ act = "clear_unlocked"
    /\ Len(rows) < Len(pre.rows)
    /\ locks # {}
    /\ locks \subseteq RowIds(rows)

\* a generate that ran sync_wc, which raised: the catalog had no products, the
\* source is configured, and synced_at was not written
SyncFailedInGenerate ==
    /\ act = "generate"
    /\ pre.catalog.products = <<>>
    /\ wcReady
    /\ catalog.synced_at = pre.catalog.synced_at

\* C17: a generate whose sync failed leaves the rows and the lock set as it
\* found them and reports the failure.
C17_FailedSyncFailsGenerate ==
    SyncFailedInGenerate =>
        /\ rows = pre.rows
        /\ locks = pre.locks
        /\ msg = "Generate failed"

\* such a generate on a roster with a locked row, the sync having replaced the
\* categories before it failed
C17_Witness ==
    /\ SyncFailedInGenerate
    /\ pre.rows # <<>>
    /\ pre.locks # {}
    /\ catalog # pre.catalog

\* C20: after a clear_unlocked every row is locked, and a reroll or a
\* clear_unlocked that is the next request leaves rows and lock set as they
\* are.
C20_ClearThenFixedPoint ==
    [][act = "clear_unlocked" =>
          /\ \A i \in 1..Len(rows) : rows[i].id \in locks
          /\ act' \in {"reroll", "clear_unlocked"} => (rows' = rows /\ locks' = locks)]_vars

\* a reroll of a roster of two rows, both locked, that a clear_unlocked has
\* shortened
C20_Witness ==
    /\ act = "reroll"
    /\ Len(rows) >= 2
    /\ \A i \in 1..Len(rows) : rows[i].id \in locks
    /\ rows = pre.rows
    /\ hist.gone # {}

(***************************************************************************)
(* Properties of the derivation.                                           *)
(***************************************************************************)
RECURSIVE SumColors(_)
SumColors(products) ==
    IF products = <<>> THEN 0 ELSE Len(Head(products).colors) + SumColors(Tail(products))

\* number of rows of rs of the given type made for ref (a product, theme or
\* cache id) and, when sub is not NoneStr, for that color
CountRows(rs, type, ref, sub) ==
    Cardinality({i \in 1..Len(rs) :
                    /\ rs[i].type = type
                    /\ rs[i].id.ref = ref
                    /\ sub # NoneStr => rs[i].id.sub = sub})

\* C7: a generated roster holds 2 * (sum of the products' colors) + 9T + 3C
\* records: one flat and one model still per product and color, 5 reels, 3
\* worlds and 1 main art per theme, 3 cache arts per cache.
C7_RosterSize ==
    (act = "generate" /\ msg = "Generated") =>
        /\ Len(rows) = 2 * SumColors(catalog.products) + 9 * Len(catalog.themes)
                         + 3 * Len(catalog.caches)
        /\ \A k \in 1..Len(catalog.products) :
             \A c \in Range(catalog.products[k].colors) :
                /\ CountRows(rows, "Product Still (Flat)", catalog.products[k].id, c) = 1
                /\ CountRows(rows, "Product Still (Model)", catalog.products[k].id, c) = 1
        /\ \A k \in 1..Len(catalog.themes) :
             /\ CountRows(rows, "Product Reel (Model)", catalog.themes[k].id, NoneStr) = 5
             /\ CountRows(rows, "World (Theme)", catalog.themes[k].id, NoneStr) = 3
             /\ CountRows(rows, "Main Art (Theme)", catalog.themes[k].id, NoneStr) = 1
        /\ \A k \in 1..Len(catalog.caches) :
             CountRows(rows, "Cache Art (Cache)", catalog.caches[k].id, NoneStr) = 3

\* a shuffled roster of a catalog with two caches and two themes, one of them
\* with two products and the other with none
C7_Witness ==
    /\ act = "generate"
    /\ msg = "Generated"
    /\ Len(catalog.themes) = 2
    /\ Len(catalog.caches) = 2
    /\ \E t \in Range(catalog.themes) :
         \A p \in Range(catalog.products) : p.theme_id = t.id
    /\ rows[Len(rows)].type = "Product Still (Flat)"

IdsOf(xs) == {xs[i].id : i \in 1..Len(xs)}

Hits(cat_ids, ids) == {i \in 1..Len(cat_ids) : cat_ids[i] \in ids}

Least(S) == CHOOSE i \in S : \A j \in S : i <= j

WithId(xs, id) == CHOOSE x \in Range(xs) : x.id = id

Synced == act \in {"sync_wc", "generate"} /\ msg \in {"Synced", "Generated"}

\* C8: a product with a category that is a theme gets the first such theme of
\* its category list and that theme's parent cache, wherever a cache id stands
\* in the list; with no theme it gets the first cache of the list and no
\* theme; otherwise neither.
C8_ThemeBeforeCache ==
    Synced =>
      \A k \in 1..Len(catalog.products) :
        LET p == catalog.products[k]
            tHits == Hits(p.cat_ids, IdsOf(catalog.themes))
            cHits == Hits(p.cat_ids, IdsOf(catalog.caches))
        IN  /\ tHits # {} =>
                 LET tid == p.cat_ids[Least(tHits)]
                 IN  /\ p.theme_id = tid
                     /\ p.theme_name = WithId(catalog.themes, tid).name
                     /\ p.cache_id = WithId(catalog.categories, tid).parent
                     /\ p.cache_id \in IdsOf(catalog.caches)
                     /\ p.cache_name = WithId(catalog.caches, p.cache_id).name
            /\ (tHits = {} /\ cHits # {}) =>
                 /\ p.cache_id = p.cat_ids[Least(cHits)]
                 /\ p.cache_name = WithId(catalog.caches, p.cache_id).name
                 /\ p.theme_id = NoneId
                 /\ p.theme_name = NoneStr
            /\ (tHits = {} /\ cHits = {}) =>
                 /\ p.cache_id = NoneId /\ p.cache_name = NoneStr
                 /\ p.theme_id = NoneId /\ p.theme_name = NoneStr

\* a product assigned the theme that stands second in its category list, after
\* the id of a cache that is not the theme's parent
C8_Witness ==
    /\ Synced
    /\ \E p \in Range(catalog.products) :
         /\ Len(p.cat_ids) = 2
         /\ p.cat_ids[1] \in IdsOf(catalog.caches)
         /\ p.cat_ids[2] \in IdsOf(catalog.themes)
         /\ p.theme_id = p.cat_ids[2]
         /\ p.cache_id # p.cat_ids[1]

NoCachesRoot(cats) == \A i \in 1..Len(cats) : Lower(cats[i].name) # S_caches

IsStill(r) == r.type \in {"Product Still (Flat)", "Product Still (Model)"}

\* C10: with no category named "caches" in any case, a sync yields no cache and
\* no theme, leaves every product with no theme and no cache, and the stills
\* generated from it show cache "Unassigned" and theme "".
C10_NoCachesRoot ==
    (Synced /\ NoCachesRoot(catalog.categories)) =>
        /\ catalog.caches = <<>>
        /\ catalog.themes = <<>>
        /\ \A p \in Range(catalog.products) :
             /\ p.theme_id = NoneId /\ p.theme_name = NoneStr
             /\ p.cache_id = NoneId /\ p.cache_name = NoneStr
        /\ act = "generate" =>
             /\ \A p \in Range(catalog.products) :
                  \E i \in 1..Len(rows) : IsStill(rows[i]) /\ rows[i].id.ref = p.id
             /\ \A i \in 1..Len(rows) :
                  /\ IsStill(rows[i])
                  /\ rows[i].cache = S_Unassigned
                  /\ rows[i].theme = <<>>

\* a roster generated from a store whose categories form a tree under a root
\* of another name, for a product with two of these categories
C10_Witness ==
    /\ act = "generate"
    /\ msg = "Generated"
    /\ NoCachesRoot(catalog.categories)
    /\ \E i, j \in 1..Len(catalog.categories) :
         catalog.categories[j].parent = catalog.categories[i].id
    /\ \E p \in Range(catalog.products) :
         Len(p.cat_ids) = 2 /\ Range(p.cat_ids) \subseteq IdsOf(catalog.categories)
    /\ rows # <<>>

\* the place of the category with this id in the category list
PosIn(cats, id) == Least({i \in 1..Len(cats) : cats[i].id = id})

\* C12 as stated: any two emitted caches, and any two emitted themes, stand in
\* the order of their categories in the category list.
C12_Original ==
    Synced =>
        /\ \A i, j \in 1..Len(catalog.caches) :
               i < j => PosIn(catalog.categories, catalog.caches[i].id)
                          < PosIn(catalog.categories, catalog.caches[j].id)
        /\ \A i, j \in 1..Len(catalog.themes) :
               i < j => PosIn(catalog.categories, catalog.themes[i].id)
                          < PosIn(catalog.categories, catalog.themes[j].id)

\* C12 amended: the emitted caches stand in the order of their categories in
\* the category list; two emitted themes of the same cache stand in the order
\* of their categories, two themes of different caches in the order of their
\* caches.
C12_OrderOfEmission ==
    Synced =>
        /\ \A i, j \in 1..Len(catalog.caches) :
               i < j => PosIn(catalog.categories, catalog.caches[i].id)
                          < PosIn(catalog.categories, catalog.caches[j].id)
        /\ \A i, j \in 1..Len(catalog.themes) :
               i < j =>
                 LET a == catalog.themes[i]
                     b == catalog.themes[j]
                 IN  IF a.cache_id = b.cache_id
                     THEN PosIn(catalog.categories, a.id) < PosIn(catalog.categories, b.id)
                     ELSE PosIn(catalog.categories, a.cache_id)
                            < PosIn(catalog.categories, b.cache_id)

\* a hierarchy with two themes in one cache and a theme of a later cache that
\* stands before them in the category list
C12_Witness ==
    /\ Synced
    /\ Len(catalog.caches) >= 2
    /\ \E i, j \in 1..Len(catalog.themes) :
         i < j /\ catalog.themes[i].cache_id = catalog.themes[j].cache_id
    /\ \E i, j \in 1..Len(catalog.themes) :
         /\ i < j
         /\ PosIn(catalog.categories, catalog.themes[j].id)
              < PosIn(catalog.categories, catalog.themes[i].id)

\* the categories of cats whose parent is one of ids
ChildrenIn(cats, ids) == {c \in Range(cats) : c.parent \in ids}

\* C13: the emitted caches are the categories whose parent is the caches root,
\* the emitted themes the categories whose parent is one of these, each once
\* and with the id and name of its parent; the root, a category below a theme
\* and a category with no parent or a parent that is not in the list are
\* neither, and no category is both.
C13_TwoLevels ==
    Synced =>
      LET cats == catalog.categories
          roots == {i \in 1..Len(cats) : Lower(cats[i].name) = S_caches}
          rootIds == IF roots = {} THEN {} ELSE {cats[Least(roots)].id}
          cacheCats == ChildrenIn(cats, rootIds)
          themeCats == ChildrenIn(cats, {c.id : c \in cacheCats})
          emitted == IdsOf(catalog.caches) \cup IdsOf(catalog.themes)
      IN  /\ Range(catalog.caches) = {[id |-> c.id, name |-> c.name] : c \in cacheCats}
          /\ Len(catalog.caches) = Cardinality(cacheCats)
          /\ Range(catalog.themes) =
                 {[id |-> c.id, name |-> c.name, cache_id |-> c.parent,
                   cache_name |-> WithId(cats, c.parent).name] : c \in themeCats}
          /\ Len(catalog.themes) = Cardinality(themeCats)
          /\ IdsOf(catalog.caches) \cap IdsOf(catalog.themes) = {}
          /\ rootIds \cap emitted = {}
          /\ \A c \in Range(cats) :
                 (c.parent \in {0, NoneId} \/ c.parent \notin IdsOf(cats)
                    \/ c.parent \in IdsOf(catalog.themes))
                   => c.id \notin emitted

\* a hierarchy with two caches, three themes, a category below a theme, a
\* category whose parent is not in the list, and a root that has a parent
C13_Witness ==
    /\ Synced
    /\ Len(catalog.caches) = 2
    /\ Len(catalog.themes) = 3
    /\ \E c \in Range(catalog.categories) : c.parent \in IdsOf(catalog.themes)
    /\ \E c \in Range(catalog.categories) :
         c.parent # 0 /\ c.parent \notin IdsOf(catalog.categories)
    /\ \E c \in Range(catalog.categories) :
         Lower(c.name) = S_caches /\ c.parent \in IdsOf(catalog.categories)

IsReel(r) == r.type = "Product Reel (Model)"

\* C14: every reel with a garment, generated for theme T, shows the name, one
\* color and the cache of a product whose theme_id is the id of T, and that
\* cache is the cache of T.
C14_Original ==
    (act = "generate" /\ msg = "Generated") =>
      \A i \in 1..Len(rows) :
        (IsReel(rows[i]) /\ rows[i].garment # <<>>) =>
          /\ \E p \in Range(catalog.products) :
                /\ p.theme_id = rows[i].id.ref
                /\ p.name = rows[i].garment
                /\ rows[i].color \in Range(p.colors)
                /\ rows[i].cache = OrElse(p.cache_name, S_Unassigned)
          /\ rows[i].cache = WithId(catalog.themes, rows[i].id.ref).cache_name

(***************************************************************************)
(* Properties of the quotas.                                               *)
(***************************************************************************)
Generated == act = "generate" /\ msg = "Generated"

\* <<garment, color, cache>> of the i-th reel (from 0) of theme t in rs
ReelTriple(rs, t, i) ==
    LET r == CHOOSE r \in Range(rs) :
                 IsReel(r) /\ r.id.ref = t.id /\ r.id.sub = IntStr(i)
    IN  <<r.garment, r.color, r.cache>>

\* the number of reels of theme t in rs that carry the pool entry e
ReelsWith(rs, t, e) ==
    Cardinality({i \in 0..(THEME_REELS_PER_THEME - 1) : ReelTriple(rs, t, i) = e})

\* C18: the reels of a theme with a pool of k > 0 entries carry entries of
\* the pool, the i-th and the j-th the same entry exactly when i and j are
\* equal modulo k (the entry i mod k of one arrangement of the pool); so with
\* k <= 5 every entry is carried, with k >= 5 the five reels differ, and the
\* numbers of reels of two entries differ by at most 1.  With an empty pool
\* the five reels carry no garment, no color and the cache "Unassigned".
C18_ReelsCycle ==
    Generated =>
      \A n \in 1..Len(catalog.themes) :
        LET t == catalog.themes[n]
            pool == PairsOf(catalog.products, t)
            k == Len(pool)
            I == 0..(THEME_REELS_PER_THEME - 1)
        IN  /\ k = 0 => \A i \in I : ReelTriple(rows, t, i) = << <<>>, <<>>, S_Unassigned >>
            /\ k > 0 =>
                 /\ \A i \in I : ReelTriple(rows, t, i) \in Range(pool)
                 /\ \A i, j \in I :
                        (i % k = j % k) <=> ReelTriple(rows, t, i) = ReelTriple(rows, t, j)
                 /\ k <= 5 => \A e \in Range(pool) : ReelsWith(rows, t, e) >= 1
                 /\ k >= 5 => \A e \in Range(pool) : ReelsWith(rows, t, e) <= 1
                 /\ \A e, f \in Range(pool) :
                        ReelsWith(rows, t, e) - ReelsWith(rows, t, f) \in {-1, 0, 1}

\* a roster with a theme whose pool of 7 entries was shuffled and a theme
\* with an empty pool
C18_Witness ==
    /\ Generated
    /\ \E n \in 1..Len(catalog.themes) :
         LET pool == PairsOf(catalog.products, catalog.themes[n])
         IN  Len(pool) = 7 /\ ReelTriple(rows, catalog.themes[n], 0) # pool[1]
    /\ \E n \in 1..Len(catalog.themes) :
         PairsOf(catalog.products, catalog.themes[n]) = <<>>

\* the row of rs that was the n-th record build_posts() made
MadeAt(rs, n) == {r \in Range(rs) : r.id.uid = <<gen, n>>}

\* the still of the given kind and type for product p and its color
IsStillOf(r, kind, type, p, color) ==
    /\ r.id.kind = kind /\ r.id.ref = p.id /\ r.id.sub = color
    /\ r.type = type
    /\ r.garment = p.name
    /\ r.color = color
    /\ r.cache = (IF p.cache_name = NoneStr THEN S_Unassigned ELSE p.cache_name)
    /\ r.theme = (IF p.theme_name = NoneStr THEN <<>> ELSE p.theme_name)
    /\ r.note = <<>>

\* C19: the records build_posts() makes first are the stills: for the k-th
\* product and the j-th of its colors, the empty color of a product without
\* colors included, the flat still and directly after it the model still,
\* products in their order and colors in theirs; each carries the product's
\* name, the color, the product's cache name or "Unassigned", its theme name
\* or "", and an empty note; and there is no other still.
C19_StillsPass ==
    Generated =>
      /\ \A k \in 1..Len(catalog.products) :
           LET p == catalog.products[k]
               before == 2 * SumColors(SubSeq(catalog.products, 1, k - 1))
           IN  \A j \in 1..Len(p.colors) :
                 /\ \E r \in Range(rows) : MadeAt(rows, before + 2 * j - 1) = {r}
                        /\ IsStillOf(r, "flat", "Product Still (Flat)", p, p.colors[j])
                 /\ \E r \in Range(rows) : MadeAt(rows, before + 2 * j) = {r}
                        /\ IsStillOf(r, "model", "Product Still (Model)", p, p.colors[j])
      /\ Cardinality({i \in 1..Len(rows) : IsStill(rows[i])})
            = 2 * SumColors(catalog.products)

\* a shuffled roster of a product with two colors and a cache but no theme, a
\* product with five colors and a theme, and a product without colors
C19_Witness ==
    /\ Generated
    /\ \E p \in Range(catalog.products) : p.colors = << <<>> >> /\ p.cache_name = NoneStr
    /\ \E p \in Range(catalog.products) : Len(p.colors) = 5 /\ p.theme_name # NoneStr
    /\ \E p \in Range(catalog.products) :
         Len(p.colors) = 2 /\ p.theme_name = NoneStr /\ p.cache_name # NoneStr
    /\ IsStill(rows[Len(rows)])

(***************************************************************************)
(* Properties of two requests served at the same time.  The handlers run   *)
(* one after the other are the operators of the actions of Spec, with      *)
(* every permutation as an outcome of a shuffle.                           *)
(***************************************************************************)
AllPerms(q) == { [i \in 1..Len(q) |-> q[f[i]]] : f \in Permutations(1..Len(q)) }

IsPerm(a, b) ==
    /\ Len(a) = Len(b)
    /\ \A x \in Range(a) \cup Range(b) :
         Cardinality({i \in 1..Len(a) : a[i] = x}) = Cardinality({i \in 1..Len(b) : b[i] = x})

\* the catalog a generate of thread t builds from
GenCatalog(s, t) ==
    IF s.catalog.products = <<>> /\ wcReady
    THEN SyncWc(s.catalog, remote, "none", t + 1).catalog
    ELSE s.catalog

\* the states in which the request of thread t, run alone from s, may end
SerialStep(t, s) ==
    LET req == thr[t]
    IN  CASE req.op = "lock_toggle" ->
               { [s EXCEPT !.locks = Toggled(s.locks, req.pid)] }
          [] req.op = "clear_unlocked" ->
               { [s EXCEPT !.rows = Cleared(s.rows, s.locks)] }
          [] req.op = "reroll" ->
               LET idx == UnlockedIdx(s.rows, s.locks)
               IN  { [s EXCEPT !.rows = Reinsert(s.rows, idx, u)] :
                       u \in AllPerms([i \in 1..Len(idx) |-> s.rows[idx[i]]]) }
          [] req.op = "sync_wc" ->
               { [s EXCEPT !.catalog = SyncWc(s.catalog, remote, "none", t + 1).catalog] }
          [] req.op = "generate" ->
               { [rows |-> r, locks |-> {}, catalog |-> GenCatalog(s, t)] :
                   r \in UNION { AllPerms(AllPosts(GenCatalog(s, t), ps, t)) :
                                   ps \in PoolSeeds(GenCatalog(s, t).products,
                                                    GenCatalog(s, t).themes) } }

\* the state is one that the two requests run one after the other, in one of
\* the two orders, may leave
Serializable ==
    \E a, b \in Threads :
        /\ a # b
        /\ \E mid \in SerialStep(a, pre) : Snapshot \in SerialStep(b, mid)

\* C6: no request fails on a roster another request shortened, and when both
\* requests have ended, rows, locks and catalog are as if the requests had run
\* one after the other in some order.
C6_Original ==
    /\ \A t \in Threads : thr[t].pc # "error"
    /\ (\A t \in Threads : thr[t].pc = "done") => Serializable

(***************************************************************************)
(* Properties of the normalisation.                                        *)
(***************************************************************************)
IsColorName(n) ==
    n # NoneStr /\ (Contains(S_color, Lower(n)) \/ Contains(S_colour, Lower(n)))

\* the value an attribute list gives for the color: that of its first attribute
\* with a color name, or none
ColorValueOf(attrs, none) ==
    IF \E i \in 1..Len(attrs) : IsColorName(attrs[i].name)
    THEN attrs[Least({i \in 1..Len(attrs) : IsColorName(attrs[i].name)})]
    ELSE none

\* the color values the store declares for raw product p, stripped, in the
\* order of the options (simple product) or of the variations (variable)
DeclaredColors(rem, p) ==
    IF p.type = "variable"
    THEN LET vs == VariationsOf(rem, p.id)
         IN  [i \in 1..Len(vs) |->
                 Strip(OrElse(ColorValueOf(vs[i].attributes, [option |-> <<>>]).option,
                              <<>>))]
    ELSE LET opts == ColorValueOf(p.attributes, [options |-> <<>>]).options
         IN  [i \in 1..Len(opts) |-> Strip(opts[i])]

\* the places of vals where a non-empty value stands that no earlier place
\* holds in any case
FirstSeen(vals) ==
    {i \in 1..Len(vals) :
        vals[i] # <<>> /\ \A j \in 1..(i - 1) : Lower(vals[j]) # Lower(vals[i])}

\* C11: the colors of every normalized product are at least one, pairwise
\* different when lower-cased, the declared values in their first-seen casing
\* and order, and hold the empty string only as the one element of the
\* sentinel list, which stands exactly when no color was declared.
C11_ColorsNormalized ==
    (act = "sync_wc" /\ msg = "Synced") =>
      \A k \in 1..Len(catalog.products) :
        LET colors == catalog.products[k].colors
            vals == DeclaredColors(remote, remote.products[k])
            firsts == FirstSeen(vals)
        IN  /\ Len(colors) >= 1
            /\ \A i, j \in 1..Len(colors) :
                   i # j => Lower(colors[i]) # Lower(colors[j])
            /\ (\E i \in 1..Len(colors) : colors[i] = <<>>) => colors = << <<>> >>
            /\ firsts = {} <=> colors = << <<>> >>
            /\ firsts # {} =>
                   /\ Len(colors) = Cardinality(firsts)
                   /\ \A a \in firsts :
                          colors[Cardinality({b \in firsts : b <= a})] = vals[a]

\* a variable product of which a later variation repeats a color in another
\* case, between two colors that are kept
C11_Witness ==
    /\ act = "sync_wc"
    /\ msg = "Synced"
    /\ \E k \in 1..Len(catalog.products) :
         LET vals == DeclaredColors(remote, remote.products[k])
         IN  /\ catalog.products[k].type = "variable"
             /\ Len(catalog.products[k].colors) = 2
             /\ Len(vals) = 3
             /\ vals[1] # vals[2]
             /\ Lower(vals[1]) = Lower(vals[2])
             /\ vals[3] = catalog.products[k].colors[2]

====
